---- MODULE Spec2Model ----
(***************************************************************************)
(* Momentum backtest engine of dax-momentum: src/utils.py                  *)
(* (momentum_backtest), the standalone script src/backtest.py and the      *)
(* command-line wrapper src/cli_backtest.py (main).                        *)
(*                                                                         *)
(* A behaviour is one run on one input: Init draws the price series, the   *)
(* lookback and the fee, and each action is one whole call (the engine     *)
(* called directly, main() of the command line, the script).               *)
(*                                                                         *)
(* Numbers.  The code computes on float64.  The model computes on exact    *)
(* decimals: a number is a sign, a magnitude written in limbs of base      *)
(* 10^4 (least significant limb first) and a count of fractional limbs, so *)
(* that sums and products never lose a digit and never overflow.  Prices   *)
(* are drawn from divisors of 10^4, which makes the one division of the    *)
(* return computation (price / previous price) an exact decimal as well.   *)
(* The three results that are not decimals (a quotient of equities, a      *)
(* square root, a fractional power) are kept as the exact terms they are   *)
(* built from.  The rounding of float64 is not modelled.                   *)
(*                                                                         *)
(* Sequences are 1-based: period t of the code is index t + 1.             *)
(***************************************************************************)
EXTENDS Integers, Sequences, FiniteSets, TLC

\* ------------------------------------------------------------------------
\* Exact decimal arithmetic
\* ------------------------------------------------------------------------

\* limb base of the decimals: four decimal digits per limb
Base == 100 * 100

RECURSIVE NatNorm(_)
\* a magnitude without its leading (most significant) zero limbs
NatNorm(m) ==
    IF m = <<>> THEN <<>>
    ELSE IF m[Len(m)] = 0 THEN NatNorm(SubSeq(m, 1, Len(m) - 1))
    ELSE m

RECURSIVE NatOfInt(_)
\* the magnitude of a natural number
NatOfInt(n) == IF n = 0 THEN <<>> ELSE <<n % Base>> \o NatOfInt(n \div Base)

Limb(m, i) == IF i <= Len(m) THEN m[i] ELSE 0

RECURSIVE NatCmpFrom(_, _, _)
NatCmpFrom(a, b, i) ==
    IF i = 0 THEN 0
    ELSE IF a[i] > b[i] THEN 1
    ELSE IF a[i] < b[i] THEN -1
    ELSE NatCmpFrom(a, b, i - 1)

\* -1, 0, 1 as a < b, a = b, a > b (normalised magnitudes)
NatCmp(a, b) ==
    IF Len(a) > Len(b) THEN 1
    ELSE IF Len(a) < Len(b) THEN -1
    ELSE NatCmpFrom(a, b, Len(a))

RECURSIVE NatAddFrom(_, _, _, _)
NatAddFrom(a, b, i, carry) ==
    IF i > Len(a) /\ i > Len(b)
    THEN (IF carry = 0 THEN <<>> ELSE <<carry>>)
    ELSE LET s == Limb(a, i) + Limb(b, i) + carry
         IN  <<s % Base>> \o NatAddFrom(a, b, i + 1, s \div Base)

NatAdd(a, b) == NatAddFrom(a, b, 1, 0)

RECURSIVE NatSubFrom(_, _, _, _)
NatSubFrom(a, b, i, borrow) ==
    IF i > Len(a) THEN <<>>
    ELSE LET s == a[i] - Limb(b, i) - borrow
         IN  IF s < 0 THEN <<s + Base>> \o NatSubFrom(a, b, i + 1, 1)
             ELSE <<s>> \o NatSubFrom(a, b, i + 1, 0)

\* a - b for a >= b
NatSub(a, b) == NatNorm(NatSubFrom(a, b, 1, 0))

RECURSIVE NatMulLimbFrom(_, _, _, _)
NatMulLimbFrom(a, d, i, carry) ==
    IF i > Len(a) THEN (IF carry = 0 THEN <<>> ELSE <<carry>>)
    ELSE LET s == a[i] * d + carry
         IN  <<s % Base>> \o NatMulLimbFrom(a, d, i + 1, s \div Base)

Zeros(k) == [i \in 1..k |-> 0]

RECURSIVE NatMulFrom(_, _, _)
NatMulFrom(a, b, j) ==
    IF j > Len(b) THEN <<>>
    ELSE IF b[j] = 0 THEN NatMulFrom(a, b, j + 1)
    ELSE NatAdd(Zeros(j - 1) \o NatMulLimbFrom(a, b[j], 1, 0), NatMulFrom(a, b, j + 1))

NatMul(a, b) == IF a = <<>> \/ b = <<>> THEN <<>> ELSE NatMulFrom(a, b, 1)

RECURSIVE LowZeros(_, _)
\* how many of the e fractional limbs of m are trailing zeros
LowZeros(m, e) ==
    IF e = 0 \/ m = <<>> \/ m[1] # 0 THEN 0
    ELSE 1 + LowZeros(Tail(m), e - 1)

\* the decimal zero
DZero == [s |-> 0, m |-> <<>>, e |-> 0]

\* the canonical decimal of sign s, magnitude m and e fractional limbs
Dec(s, m, e) ==
    LET n == NatNorm(m)
        z == LowZeros(n, e)
    IN  IF n = <<>> \/ s = 0 THEN DZero
        ELSE [s |-> s, m |-> SubSeq(n, z + 1, Len(n)), e |-> e - z]

\* the decimal of an integer
DInt(i) == IF i = 0 THEN DZero
           ELSE IF i > 0 THEN Dec(1, NatOfInt(i), 0)
           ELSE Dec(-1, NatOfInt(-i), 0)

DOne == DInt(1)

\* k basis points: k / 10^4
DBp(k) == IF k = 0 THEN DZero
          ELSE IF k > 0 THEN Dec(1, NatOfInt(k), 1)
          ELSE Dec(-1, NatOfInt(-k), 1)

DNeg(x) == [x EXCEPT !.s = -x.s]

DAbs(x) == [x EXCEPT !.s = IF x.s = 0 THEN 0 ELSE 1]

\* the magnitude of x written with e fractional limbs (e >= x.e)
Scaled(x, e) == IF x.s = 0 THEN <<>> ELSE Zeros(e - x.e) \o x.m

DAdd(x, y) ==
    IF x.s = 0 THEN y
    ELSE IF y.s = 0 THEN x
    ELSE LET e == IF x.e > y.e THEN x.e ELSE y.e
             a == Scaled(x, e)
             b == Scaled(y, e)
         IN  IF x.s = y.s THEN Dec(x.s, NatAdd(a, b), e)
             ELSE LET c == NatCmp(a, b)
                  IN  IF c = 0 THEN DZero
                      ELSE IF c > 0 THEN Dec(x.s, NatSub(a, b), e)
                      ELSE Dec(y.s, NatSub(b, a), e)

DSub(x, y) == DAdd(x, DNeg(y))

DMul(x, y) ==
    IF x.s = 0 \/ y.s = 0 THEN DZero
    ELSE Dec(x.s * y.s, NatMul(x.m, y.m), x.e + y.e)

\* the sign of x - y
DCmp(x, y) ==
    IF x.s # y.s THEN (IF x.s > y.s THEN 1 ELSE -1)
    ELSE IF x.s = 0 THEN 0
    ELSE LET e == IF x.e > y.e THEN x.e ELSE y.e
         IN  x.s * NatCmp(Scaled(x, e), Scaled(y, e))

DLt(x, y) == DCmp(x, y) < 0
DLe(x, y) == DCmp(x, y) <= 0
DGt(x, y) == DCmp(x, y) > 0

\* x / p for a price p, a divisor of 10^4: x * (10^4 / p) / 10^4
DDivPrice(x, p) == DMul(x, Dec(1, NatOfInt(Base \div p), 1))

\* ------------------------------------------------------------------------
\* Values that are not decimals
\* ------------------------------------------------------------------------

\* float NaN: a missing value of a pandas Series
NaN == [s |-> 2, m |-> <<>>, e |-> 0]

IsNaN(x) == x.s = 2

\* the quotient num / den of two decimals, kept as its two terms
Frac(num, den) == [num |-> num, den |-> den]

FracNaN == Frac(NaN, NaN)

\* the sign of x - y for two quotients with non-zero divisors
FracCmp(x, y) ==
    x.den.s * y.den.s * DCmp(DMul(x.num, y.den), DMul(y.num, x.den))

FracEq(x, y) ==
    IF IsNaN(x.num) \/ IsNaN(y.num) THEN FALSE   \* NaN equals nothing
    ELSE FracCmp(x, y) = 0

\* ------------------------------------------------------------------------
\* pandas Series operations used by the code
\* ------------------------------------------------------------------------

\* a Series given entry by entry, as the sequence of its entries
AsSeq(f) == SubSeq(f, 1, Len(f))

\* Series.pct_change(): prices[t] / prices[t-1] - 1, NaN in period 0
PctChange(prices) ==
    AsSeq([i \in 1..Len(prices) |->
        IF i = 1 THEN NaN
        ELSE DSub(DDivPrice(DInt(prices[i]), prices[i - 1]), DOne)])

\* Series.fillna(v)
FillNa(series, v) ==
    AsSeq([i \in 1..Len(series) |->
        LET x == series[i] IN IF IsNaN(x) THEN v ELSE x])

RECURSIVE SumRange(_, _, _)
\* series[from] + ... + series[to]
SumRange(series, from, to) ==
    IF from > to THEN DZero
    ELSE DAdd(SumRange(series, from, to - 1), series[to])

\* Series.rolling(window).sum(): NaN until `window` observations exist
RollingSum(series, window) ==
    AsSeq([i \in 1..Len(series) |->
        IF i < window THEN NaN
        ELSE SumRange(series, i - window + 1, i)])

\* (series > 0).astype(int): a comparison with NaN is False
GtZeroAsInt(series) ==
    AsSeq([i \in 1..Len(series) |->
        LET x == series[i]
        IN  IF ~IsNaN(x) /\ DGt(x, DZero) THEN DOne ELSE DZero])

\* Series.shift(1)
Shift1(series) ==
    AsSeq([i \in 1..Len(series) |-> IF i = 1 THEN NaN ELSE series[i - 1]])

\* Series.diff()
Diff(series) ==
    AsSeq([i \in 1..Len(series) |->
        IF i = 1 THEN NaN ELSE DSub(series[i], series[i - 1])])

\* Series.abs()
Abs(series) ==
    AsSeq([i \in 1..Len(series) |->
        LET x == series[i] IN IF IsNaN(x) THEN NaN ELSE DAbs(x)])

RECURSIVE CumProdTo(_, _)
\* the first i entries of the running product
CumProdTo(series, i) ==
    IF i = 0 THEN <<>>
    ELSE IF i = 1 THEN <<series[1]>>
    ELSE LET before == CumProdTo(series, i - 1)
         IN  Append(before, DMul(before[i - 1], series[i]))

\* Series.cumprod()
CumProd(series) == CumProdTo(series, Len(series))

RECURSIVE CumMaxTo(_, _)
\* the first i entries of the running maximum
CumMaxTo(series, i) ==
    IF i = 0 THEN <<>>
    ELSE IF i = 1 THEN <<series[1]>>
    ELSE LET before == CumMaxTo(series, i - 1)
         IN  Append(before, IF DGt(series[i], before[i - 1]) THEN series[i]
                            ELSE before[i - 1])

\* Series.cummax()
CumMax(series) == CumMaxTo(series, Len(series))

RECURSIVE FracMinTo(_, _)
FracMinTo(fracs, i) ==
    IF i = 1 THEN fracs[1]
    ELSE LET m == FracMinTo(fracs, i - 1)
         IN  IF FracCmp(fracs[i], m) < 0 THEN fracs[i] ELSE m

\* Series.min() of a Series of quotients: NaN when the Series is empty
FracMin(fracs) == IF Len(fracs) = 0 THEN FracNaN ELSE FracMinTo(fracs, Len(fracs))

\* Series.mean(): sum / n, NaN when the Series is empty
Mean(series) ==
    IF Len(series) = 0 THEN FracNaN
    ELSE Frac(SumRange(series, 1, Len(series)), DInt(Len(series)))

\* Series.std() squared (sample variance, ddof = 1): NaN for n < 2, else
\* sum((x - mean)^2) / (n - 1) = (n * sum(x^2) - sum(x)^2) / (n * (n - 1))
Variance(series) ==
    LET n == Len(series)
        S == SumRange(series, 1, n)
        Q == SumRange([i \in 1..n |-> DMul(series[i], series[i])], 1, n)
    IN  IF n < 2 THEN FracNaN
        ELSE Frac(DSub(DMul(DInt(n), Q), DMul(S, S)), DInt(n * (n - 1)))

\* std() == 0
StdIsZero(series) ==
    LET v == Variance(series) IN ~IsNaN(v.num) /\ v.num = DZero

\* ------------------------------------------------------------------------
\* Bounds of the model
\* ------------------------------------------------------------------------

\* longest price series drawn
MaxLen == 5

\* largest lookback window drawn (the smallest is -1)
MaxLookback == 3

\* closing prices drawn for the engine: positive, each a divisor of 10^4
PriceVals == {1, 2, 4}

\* closing prices drawn for the script: with a crash of 99.99 %, the one
\* its fee of 1 bp turns into a return of -100 %
ScriptPriceVals == {1, 2, 100 * 100}

\* fees drawn for the engine: -1 bp, 0 and 50 %
FeeVals == {DBp(-1), DZero, DBp(5000)}

Lookbacks == -1..MaxLookback

SeriesOfLen(n) == [1..n -> PriceVals]

AllSeries == UNION {SeriesOfLen(n) : n \in 0..MaxLen}

ScriptSeries == UNION {[1..n -> ScriptPriceVals] : n \in 0..MaxLen}

\* ------------------------------------------------------------------------
\* utils.momentum_backtest
\* ------------------------------------------------------------------------

\* trading days per year
ann == 252

\* variant of Validate: the length check one price too lenient
ValidateOffByOne(p, lb) ==
    IF lb <= 0 THEN "InvalidParameter"
    ELSE IF Len(p) < lb + 1 THEN "InsufficientData"
    ELSE "ok"

\* the two ValueErrors of the engine, named by the precondition they report:
\* "Lookback window must be positive" is InvalidParameter,
\* "Not enough data points" is InsufficientData
Validate(p, lb) ==
    IF lb <= 0 THEN "InvalidParameter"
    ELSE IF Len(p) < lb + 2 THEN "InsufficientData"
    ELSE "ok"

\* variant of Returns: the change divided by the current price
ReturnsOverCurrentPrice(p) ==
    AsSeq([i \in 1..Len(p) |->
        IF i = 1 THEN DZero
        ELSE DSub(DOne, DDivPrice(DInt(p[i - 1]), p[i]))])

\* ret = prices.pct_change().fillna(0)
Returns(p) == FillNa(PctChange(p), DZero)

\* variant of Signal: >= 0 in place of > 0
SignalNonNegative(ret, lb) ==
    LET sum == RollingSum(ret, lb)
    IN  AsSeq([i \in 1..Len(ret) |->
            IF ~IsNaN(sum[i]) /\ DLe(DZero, sum[i]) THEN DOne ELSE DZero])

\* signal = (ret.rolling(lookback).sum() > 0).astype(int)
Signal(ret, lb) == GtZeroAsInt(RollingSum(ret, lb))

\* variant of Position: the signal of the same period, not shifted
PositionSameDay(signal) == signal

\* pos = signal.shift(1).fillna(0)
Position(signal) == FillNa(Shift1(signal), DZero)

\* variant of PositionChange: the signed change, abs() forgotten
PositionChangeSigned(pos) == FillNa(Diff(pos), DZero)

\* pos.diff().abs().fillna(0)
PositionChange(pos) == FillNa(Abs(Diff(pos)), DZero)

\* strategy_ret = pos * ret - fee * pos.diff().abs().fillna(0)
StrategyRet(pos, ret, f) ==
    LET change == PositionChange(pos)
    IN  AsSeq([i \in 1..Len(pos) |-> DSub(DMul(pos[i], ret[i]), DMul(f, change[i]))])

\* A Sharpe ratio x is kept as its sign and its square:
\* x = sgn * sqrt(sq.num / sq.den); sgn = 2 is NaN
SharpeLiteralZero == [sgn |-> 0, sq |-> Frac(DZero, DOne)]

SharpeNaN == [sgn |-> 2, sq |-> FracNaN]

\* (mean / std) * sqrt(annual): its square is mean^2 / variance * annual
SharpeRatio(mean, var, annual) ==
    IF IsNaN(mean.num) \/ IsNaN(var.num) THEN SharpeNaN
    ELSE [sgn |-> mean.num.s,
          sq  |-> Frac(DMul(DInt(annual), DMul(DMul(mean.num, mean.num), var.den)),
                       DMul(DMul(mean.den, mean.den), var.num))]

\* if strategy_ret.std() == 0: sharpe = 0.0
\* else: sharpe = (strategy_ret.mean() / strategy_ret.std()) * np.sqrt(ann)
Sharpe(strategy_ret) ==
    IF StdIsZero(strategy_ret) THEN SharpeLiteralZero
    ELSE SharpeRatio(Mean(strategy_ret), Variance(strategy_ret), ann)

\* variant of Equity: returns added up, not compounded
EquityCumSum(strategy_ret) ==
    AsSeq([i \in 1..Len(strategy_ret) |->
        DAdd(DOne, SumRange(strategy_ret, 1, i))])

\* equity = (1 + strategy_ret).cumprod()
Equity(strategy_ret) ==
    CumProd([i \in 1..Len(strategy_ret) |-> DAdd(DOne, strategy_ret[i])])

\* A CAGR is kept as the power it is: base ** (annual / n) - 1, or the
\* literal 0.0 (pow = FALSE)
CagrLiteralZero == [pow |-> FALSE, base |-> DZero, annual |-> 0, n |-> 0]

CagrPower(base, annual, n) == [pow |-> TRUE, base |-> base, annual |-> annual, n |-> n]

\* if len(strategy_ret) == 0 or equity.iloc[-1] <= 0: cagr = 0.0
\* else: cagr = equity.iloc[-1] ** (ann / len(strategy_ret)) - 1
Cagr(strategy_ret, equity) ==
    IF Len(strategy_ret) = 0 \/ DLe(equity[Len(equity)], DZero) THEN CagrLiteralZero
    ELSE CagrPower(equity[Len(equity)], ann, Len(strategy_ret))

\* variant of Drawdown: measured from the first equity, not the running peak
DrawdownFromStart(equity) ==
    AsSeq([i \in 1..Len(equity) |->
        Frac(DSub(equity[i], equity[1]), equity[1])])

\* equity / equity.cummax() - 1, each entry kept as (equity - cummax) / cummax
Drawdown(equity) ==
    LET peak == CumMax(equity)
    IN  AsSeq([i \in 1..Len(equity) |-> Frac(DSub(equity[i], peak[i]), peak[i])])

\* mdd = (equity / equity.cummax() - 1).min()
MaxDrawdown(equity) == FracMin(Drawdown(equity))

\* what a call that raised leaves behind: nothing computed, nothing returned
NoResult ==
    [ret |-> <<>>, signal |-> <<>>, pos |-> <<>>, returns |-> <<>>, equity |-> <<>>,
     sharpe |-> SharpeNaN, cagr |-> CagrLiteralZero, max_dd |-> FracNaN]

\* the body of momentum_backtest after its two checks; ret, signal and pos are
\* its locals, the other five fields the dictionary it returns
Compute(p, lb, f) ==
    LET r   == Returns(p)
        sig == Signal(r, lb)
        po  == Position(sig)
        sr  == StrategyRet(po, r, f)
        eq  == Equity(sr)
    IN  [ret |-> r, signal |-> sig, pos |-> po, returns |-> sr, equity |-> eq,
         sharpe |-> Sharpe(sr), cagr |-> Cagr(sr, eq), max_dd |-> MaxDrawdown(eq)]

\* momentum_backtest(prices, lookback, fee): how it ends and what it returns
Backtest(p, lb, f) ==
    LET v == Validate(p, lb)
    IN  [outcome |-> v, bundle |-> IF v = "ok" THEN Compute(p, lb, f) ELSE NoResult]

\* ------------------------------------------------------------------------
\* backtest.py: the standalone script, from the price series to its metrics
\* ------------------------------------------------------------------------

\* rolling(3)
ScriptWindow == 3

\* variant of ScriptFee: 10 bp
ScriptFeeTenBp == DBp(10)

\* fee = 0.0001
ScriptFee == DBp(1)

\* ann = 252
ScriptAnn == 252

\* signal = (ret.rolling(3).sum() > 0).astype(int)
ScriptSignal(ret) == GtZeroAsInt(RollingSum(ret, ScriptWindow))

\* strategy_ret = pos * ret - fee * pos.diff().abs().fillna(0)
ScriptStrategyRet(pos, ret) ==
    LET change == FillNa(Abs(Diff(pos)), DZero)
    IN  AsSeq([i \in 1..Len(pos) |->
            DSub(DMul(pos[i], ret[i]), DMul(ScriptFee, change[i]))])

\* if strategy_ret.std() == 0: sharpe = 0.0
\* else: sharpe = (strategy_ret.mean() / strategy_ret.std()) * np.sqrt(ann)
ScriptSharpe(strategy_ret) ==
    IF StdIsZero(strategy_ret) THEN SharpeLiteralZero
    ELSE SharpeRatio(Mean(strategy_ret), Variance(strategy_ret), ScriptAnn)

\* if len(strategy_ret) == 0: cagr = 0.0
\* else: cagr = equity.iloc[-1] ** (ann / len(strategy_ret)) - 1
ScriptCagr(strategy_ret, equity) ==
    IF Len(strategy_ret) = 0 THEN CagrLiteralZero
    ELSE CagrPower(equity[Len(equity)], ScriptAnn, Len(strategy_ret))

\* mdd = (equity / equity.cummax() - 1).min()
ScriptMaxDrawdown(equity) ==
    LET peak == CumMax(equity)
    IN  FracMin([i \in 1..Len(equity) |-> Frac(DSub(equity[i], peak[i]), peak[i])])

\* the module-level statements of the script, lines 19 to 42
ScriptRun(p) ==
    LET r   == FillNa(PctChange(p), DZero)
        sig == ScriptSignal(r)
        po  == FillNa(Shift1(sig), DZero)
        sr  == ScriptStrategyRet(po, r)
        eq  == CumProd([i \in 1..Len(sr) |-> DAdd(DOne, sr[i])])
    IN  [ret |-> r, signal |-> sig, pos |-> po, returns |-> sr, equity |-> eq,
         sharpe |-> ScriptSharpe(sr), cagr |-> ScriptCagr(sr, eq),
         max_dd |-> ScriptMaxDrawdown(eq)]

\* ------------------------------------------------------------------------
\* cli_backtest.main
\* ------------------------------------------------------------------------

CliNone == [exit |-> -1, msg |-> "none"]

CliExit(code, msg) == [exit |-> code, msg |-> msg]

\* main() with --window w --fee f; data_exists: data/dax_daily.csv is there
\* and holds the series p.  call: what momentum_backtest did when main
\* reached it ("pending" when it did not)
CliMain(w, f, data_exists, p) ==
    IF w <= 0
    THEN [cli |-> CliExit(1, "Error: Window must be positive"),
          call |-> [outcome |-> "pending", bundle |-> NoResult]]
    ELSE IF DLt(f, DZero)
    THEN [cli |-> CliExit(1, "Error: Fee cannot be negative"),
          call |-> [outcome |-> "pending", bundle |-> NoResult]]
    ELSE IF ~data_exists
    THEN [cli |-> CliExit(1, "Error: Data file not found"),
          call |-> [outcome |-> "pending", bundle |-> NoResult]]
    ELSE IF Len(p) = 0
    \* prices.index[0] raises IndexError, caught by `except Exception`
    THEN [cli |-> CliExit(1, "Error: IndexError"),
          call |-> [outcome |-> "pending", bundle |-> NoResult]]
    ELSE LET b == Backtest(p, w, f)
         IN  IF b.outcome # "ok"
             \* the ValueError is caught by `except Exception`
             THEN [cli |-> CliExit(1, "Error: ValueError"), call |-> b]
             ELSE [cli |-> CliExit(0, "All plots saved"), call |-> b]

\* ------------------------------------------------------------------------
\* State
\* ------------------------------------------------------------------------

VARIABLES
    prices,     \* the price series handed to the code
    lookback,   \* the lookback argument (--window)
    fee,        \* the fee argument (--fee)
    caller,     \* who called momentum_backtest: "none", "direct" or "cli"
    outcome,    \* "pending", "ok", "InvalidParameter" or "InsufficientData"
    result,     \* the locals and the returned dictionary of momentum_backtest
    cli,        \* how cli_backtest.main ended: CliNone or its exit and message
    script      \* backtest.py: "pending", "FileNotFoundError" or "ok", and its values

vars == <<prices, lookback, fee, caller, outcome, result, cli, script>>

ScriptNone == [status |-> "pending", bundle |-> NoResult]

\* one invocation on inputs drawn from the bounded sets, nothing run yet
Init ==
    /\ prices \in AllSeries
    /\ lookback \in Lookbacks
    /\ fee \in FeeVals
    /\ caller = "none"
    /\ outcome = "pending"
    /\ result = NoResult
    /\ cli = CliNone
    /\ script = ScriptNone

\* a direct call momentum_backtest(prices, lookback, fee)
MomentumBacktest ==
    /\ caller = "none"
    /\ LET b == Backtest(prices, lookback, fee)
       IN  /\ outcome' = b.outcome
           /\ result' = b.bundle
    /\ caller' = "direct"
    /\ UNCHANGED <<prices, lookback, fee, cli, script>>

\* python cli_backtest.py --window lookback --fee fee
Main ==
    /\ caller = "none"
    /\ \E data_exists \in BOOLEAN :
         LET m == CliMain(lookback, fee, data_exists, prices)
         IN  /\ cli' = m.cli
             /\ outcome' = m.call.outcome
             /\ result' = m.call.bundle
    /\ caller' = "cli"
    /\ UNCHANGED <<prices, lookback, fee, script>>

\* python backtest.py
BacktestScript ==
    /\ script.status = "pending"
    /\ \E data_exists \in BOOLEAN :
         script' = IF data_exists
                   THEN [status |-> "ok", bundle |-> ScriptRun(prices)]
                   ELSE [status |-> "FileNotFoundError", bundle |-> NoResult]
    /\ UNCHANGED <<prices, lookback, fee, caller, outcome, result, cli>>

\* the engine, called directly or through the command line
Next == MomentumBacktest \/ Main

Spec == Init /\ [][Next]_vars

\* the script and the engine on the same series, the engine with the
\* arguments lookback = 3 and fee = 0.0001
ScriptInit ==
    /\ prices \in ScriptSeries
    /\ lookback = 3
    /\ fee = DBp(1)
    /\ caller = "none"
    /\ outcome = "pending"
    /\ result = NoResult
    /\ cli = CliNone
    /\ script = ScriptNone

ScriptNext == BacktestScript \/ MomentumBacktest

ScriptSpec == ScriptInit /\ [][ScriptNext]_vars

\* ------------------------------------------------------------------------
\* Properties
\* ------------------------------------------------------------------------

N == Len(prices)

\* momentum_backtest returned its dictionary
Returned == outcome = "ok"

IsFlat(p) == \A i \in 1..Len(p) : p[i] = p[1]

NonDecreasing(series) ==
    \A i \in 1..(Len(series) - 1) : DLe(series[i], series[i + 1])

SharpeIsZero(x) == x.sgn = 0

SharpeEq(x, y) ==
    /\ x.sgn # 2
    /\ x.sgn = y.sgn
    /\ x.sgn = 0 \/ FracEq(x.sq, y.sq)

\* 0.0, or x ** (annual / n) - 1 with x = 1
CagrIsZero(c) == ~c.pow \/ c.base = DOne

\* equal values: for positive bases, powers of the same exponent are equal
\* exactly when their bases are
CagrEq(c, d) ==
    \/ CagrIsZero(c) /\ CagrIsZero(d)
    \/ c.pow /\ d.pow /\ c.base = d.base /\ c.annual = d.annual /\ c.n = d.n

\* C1: on a series long enough for the lookback, a direct call of the engine
\* with lookback > 0 and fee < 0 fails with InvalidParameter and returns no
\* results bundle.
C1_EngineRejectsNegativeFee ==
    (caller = "direct" /\ lookback > 0 /\ N >= lookback + 2 /\ DLt(fee, DZero))
        => (outcome = "InvalidParameter" /\ result = NoResult)

\* C2: warm-up: Signal[t] = 0 for every period t < lookback, and Position[t] = 0
\* and StrategyReturn[t] = 0 for every period t <= lookback.
C2_WarmUp ==
    Returned =>
        \A i \in 1..N :
            /\ (i - 1 < lookback => result.signal[i] = DZero)
            /\ (i - 1 <= lookback =>
                    result.pos[i] = DZero /\ result.returns[i] = DZero)

\* C3: a call with lookback <= 0 fails with InvalidParameter whatever the
\* length, a call with lookback > 0 and at most lookback + 1 prices fails with
\* InsufficientData, a call with lookback > 0 and at least lookback + 2 prices
\* returns a bundle; a failed call has computed nothing.
C3_InputBoundary ==
    outcome # "pending" =>
        /\ lookback <= 0 => outcome = "InvalidParameter"
        /\ (lookback > 0 /\ N <= lookback + 1) => outcome = "InsufficientData"
        /\ (lookback > 0 /\ N >= lookback + 2) => outcome = "ok"
        /\ outcome # "ok" => result = NoResult
        /\ outcome = "ok" => Len(result.returns) = N

\* C3 witness: a directly called series of exactly lookback + 2 prices is accepted
C3_Witness ==
    caller = "direct" /\ lookback > 0 /\ N = lookback + 2 /\ outcome = "ok"

\* the position of period index i computed from the prices before it alone
PositionFromPast(p, lb, i) ==
    IF i = 1 THEN DZero
    ELSE Signal(Returns(SubSeq(p, 1, i - 1)), lb)[i - 1]

\* the position of the last period when the last price is replaced by v
PositionWithLastPrice(p, lb, v) ==
    Position(Signal(Returns([p EXCEPT ![Len(p)] = v]), lb))[Len(p)]

\* C4: no look-ahead: Position[0] = 0, Position[t] = Signal[t-1] for t > 0,
\* Position[t] is a function of prices[0..t-1] alone, and replacing the most
\* recent price by any other leaves the position of its period unchanged.
C4_NoLookAhead ==
    Returned =>
        /\ result.pos[1] = DZero
        /\ \A i \in 2..N : result.pos[i] = result.signal[i - 1]
        /\ \A i \in 1..N : result.pos[i] = PositionFromPast(prices, lookback, i)
        /\ \A v \in PriceVals :
               PositionWithLastPrice(prices, lookback, v) = result.pos[N]

\* C4 witness: long in the last period, and another last price would have
\* changed the signal of that period
C4_Witness ==
    /\ Returned
    /\ result.pos[N] = DOne
    /\ \E v \in PriceVals :
           Signal(Returns([prices EXCEPT ![N] = v]), lookback)[N] # result.signal[N]

\* C5: max drawdown <= 0, and = 0 exactly when the equity curve never
\* decreases; the running maximum that divides is > 0 in every period.
C5_MaxDrawdown ==
    Returned =>
        /\ LET peak == CumMax(result.equity)
           IN  \A i \in 1..N : DGt(peak[i], DZero)
        /\ DGt(result.max_dd.den, DZero)
        /\ DLe(result.max_dd.num, DZero)
        /\ (result.max_dd.num = DZero) <=> NonDecreasing(result.equity)

\* C5 witness: a run whose equity rose above 1 and fell afterwards
C5_Witness ==
    /\ Returned
    /\ DLt(result.max_dd.num, DZero)
    /\ DGt(result.max_dd.den, DOne)

\* C6: the returned returns and equity have len(prices) entries,
\* StrategyReturn[0] = 0, Equity[0] = 1 and
\* Equity[t] = Equity[t-1] * (1 + StrategyReturn[t]) for t > 0.
C6_Shape ==
    Returned =>
        /\ Len(result.returns) = N
        /\ Len(result.equity) = N
        /\ result.returns[1] = DZero
        /\ result.equity[1] = DOne
        /\ \A i \in 2..N :
               result.equity[i] =
                   DMul(result.equity[i - 1], DAdd(DOne, result.returns[i]))

\* C6 witness: a run whose equity moved in at least two periods
C6_Witness ==
    /\ Returned
    /\ \E i, j \in 2..N :
           i < j /\ result.returns[i] # DZero /\ result.returns[j] # DZero

\* C7 as claimed: with fee >= 0 no StrategyReturn[t] is <= -100 % and
\* Equity[t] > 0 for every t.
C7_NeverWipedOut ==
    (Returned /\ DLe(DZero, fee)) =>
        \A i \in 1..N :
            /\ DGt(result.returns[i], DInt(-1))
            /\ DGt(result.equity[i], DZero)

\* C7 as amended: with fee >= 0, StrategyReturn[t] > -1 - fee * |Position[t] -
\* Position[t-1]| in every period; with fee = 0 no StrategyReturn[t] is
\* <= -100 % and Equity[t] > 0 for every t.
C7_WipedOutOnlyByFee ==
    (Returned /\ DLe(DZero, fee)) =>
        /\ LET change == PositionChange(result.pos)
           IN  \A i \in 1..N :
                   DGt(result.returns[i], DSub(DInt(-1), DMul(fee, change[i])))
        /\ fee = DZero =>
               \A i \in 1..N :
                   /\ DGt(result.returns[i], DInt(-1))
                   /\ DGt(result.equity[i], DZero)

\* C7 witness: a run without fee that lost money while long
C7_Witness ==
    /\ Returned
    /\ fee = DZero
    /\ \E i \in 1..N : result.pos[i] = DOne /\ DLt(result.returns[i], DZero)

\* C8: on a flat series of accepted length, with lookback > 0 and fee >= 0,
\* the engine returns, signal and position are 0 and StrategyReturn is 0 and
\* Equity is 1 in every period, and sharpe = 0.0, cagr = 0.0, max drawdown = 0.
C8_FlatSeries ==
    (outcome # "pending" /\ IsFlat(prices) /\ lookback > 0 /\ N >= lookback + 2
        /\ DLe(DZero, fee)) =>
        /\ outcome = "ok"
        /\ \A i \in 1..N :
               /\ result.signal[i] = DZero
               /\ result.pos[i] = DZero
               /\ result.returns[i] = DZero
               /\ result.equity[i] = DOne
        /\ SharpeIsZero(result.sharpe)
        /\ CagrIsZero(result.cagr)
        /\ FracEq(result.max_dd, Frac(DZero, DOne))

\* C8 witness: a flat series run with a positive fee
C8_Witness ==
    /\ Returned
    /\ IsFlat(prices)
    /\ DGt(fee, DZero)
    /\ N > lookback + 2

\* the two-state machine of C9: Flat in period 0, then Long in period t
\* exactly when Signal[t-1] = 1
MachineState(signal, i) ==
    IF i > 1 /\ signal[i - 1] = DOne THEN "Long" ELSE "Flat"

\* what the machine earns in a period it enters in state `to` from `from`
MachineReturn(from, to, r, f) ==
    IF from = "Flat" /\ to = "Flat" THEN DZero
    ELSE IF from = "Long" /\ to = "Long" THEN r
    ELSE IF from = "Flat" /\ to = "Long" THEN DSub(r, f)
    ELSE DNeg(f)

MachineChanges(signal) ==
    Cardinality({i \in 2..Len(signal) :
                    MachineState(signal, i) # MachineState(signal, i - 1)})

\* the fee charged in period index i: what the position earned less what
\* the strategy returned
FeeCharged(i) ==
    DSub(DMul(result.pos[i], result.ret[i]), result.returns[i])

\* C9: Position[t] is 0 or 1 and is the state of the machine, StrategyReturn[t]
\* is what the machine earns, the fees charged sum to fee times the number of
\* state changes and no fee is charged in a period without a change.
C9_StateMachine ==
    Returned =>
        /\ \A i \in 1..N :
               /\ result.pos[i] \in {DZero, DOne}
               /\ (result.pos[i] = DOne) <=> (MachineState(result.signal, i) = "Long")
               /\ result.returns[i] =
                      MachineReturn(MachineState(result.signal, i - 1),
                                    MachineState(result.signal, i),
                                    result.ret[i], fee)
               /\ MachineState(result.signal, i) = MachineState(result.signal, i - 1)
                      => FeeCharged(i) = DZero
        /\ SumRange([i \in 1..N |-> FeeCharged(i)], 1, N) =
               DMul(fee, DInt(MachineChanges(result.signal)))

\* C9 witness: a run with a positive fee that went long and flat again
C9_Witness ==
    /\ Returned
    /\ DGt(fee, DZero)
    /\ \E i \in 2..(N - 1) :
           /\ result.pos[i - 1] = DZero
           /\ result.pos[i] = DOne
           /\ result.pos[i + 1] = DZero

\* C10: on every series of at least 5 prices the engine called with
\* lookback = 3 and fee = 0.0001 returns, and the script's strategy returns,
\* equity, Sharpe ratio and max drawdown equal the engine's; the CAGRs are
\* equal when the final equity is > 0, and when it is <= 0 the engine
\* reports 0.0 where the script raises the final equity to the power.
C10_ScriptAgrees ==
    (script.status = "ok" /\ outcome # "pending" /\ N >= 5) =>
        /\ outcome = "ok"
        /\ script.bundle.returns = result.returns
        /\ script.bundle.equity = result.equity
        /\ SharpeEq(script.bundle.sharpe, result.sharpe)
        /\ FracEq(script.bundle.max_dd, result.max_dd)
        /\ DGt(result.equity[N], DZero) => CagrEq(script.bundle.cagr, result.cagr)
        /\ DLe(result.equity[N], DZero) => (script.bundle.cagr.pow /\ ~result.cagr.pow)

\* C10 witness: both ran on a series that made the strategy trade and pay
\* the fee, and left a final equity > 0
C10_Witness ==
    /\ script.status = "ok"
    /\ outcome = "ok"
    /\ DGt(result.equity[N], DZero)
    /\ result.equity[N] # DOne
    /\ \E i \in 2..N : result.pos[i] # result.pos[i - 1]

====
